---- MODULE Spec2Model ----
(***************************************************************************)
(* Model of app/api/v1/endpoints/data.py: the three sync endpoints         *)
(*   sync_sheet_to_redis, sync_folder_sheets, sync_default_folder_sheets.  *)
(*                                                                         *)
(* The drive service (get_sheets_in_folder) and the sync service           *)
(* (sync_sheet) are external collaborators.  What they answer is fixed in  *)
(* Init and does not change during a behaviour ("no external state         *)
(* change"); every answer they can give is drawn in Init.                  *)
(*                                                                         *)
(* A handler is a coroutine; its positions are its await points.  Each     *)
(* request r \in Runs has its own locals, as each call of an async def     *)
(* has its own frame.                                                      *)
(*                                                                         *)
(* The Chinese literals of the f-strings are glossed in ASCII:             *)
(*   line 123  "sync done: <n>/<m> ok",  line 125  ", <k> failed",         *)
(*   line 78   "sync done",              line 80   "sync failed: <e>",     *)
(*   line 140  "folder sync failed: <e>".                                  *)
(***************************************************************************)
EXTENDS Integers, Sequences, FiniteSets, TLC

\* ------------------------------------------------------------------ bounds
MaxFiles == 3
MaxRuns == 2

Runs == 1..MaxRuns

\* ------------------------------------------------------- collaborator data
\* The objects get_sheets_in_folder returns: each has .name and .token.
SheetFiles ==
    { [name |-> "a.xlsx", token |-> "A"],
      [name |-> "b.xlsx", token |-> "B"],
      [name |-> "c.xlsx", token |-> "C"] }

Tokens == { f.token : f \in SheetFiles }

\* settings.folders.default
DefaultFolder == "FD"

\* The folder tokens a caller passes in the path.
FolderTokens == { "F1" }

\* The spreadsheet tokens a caller passes in the path: one token is enough,
\* sync_behaviour gives it every outcome.
SheetTokens == { "A" }

\* Exceptions.  Every error the collaborators raise is an Exception
\* subclass; HTTPException is one of them and carries a status code.
ExcRateLimited == [cls |-> "Exception", status_code |-> 0, text |-> "rate limited"]
ExcNotFound == [cls |-> "Exception", status_code |-> 0, text |-> "folder not found"]
HttpNotFound == [cls |-> "HTTPException", status_code |-> 404, text |-> "not found"]
AttributeErrorNone ==
    [cls |-> "AttributeError", status_code |-> 0,
     text |-> "'NoneType' object has no attribute 'get'"]
NoError == [cls |-> "none", status_code |-> 0, text |-> ""]

\* str(e): the message of a plain exception; starlette's HTTPException
\* prints "<status_code>: <detail>".
Str(e) ==
    IF e.cls = "HTTPException"
    THEN ToString(e.status_code) \o ": " \o e.text
    ELSE e.text

\* What sync_sheet returns: a mapping (its present keys are in .keys) or
\* something that is no mapping (None).
DictResult(keys, rows, sheets) ==
    [type |-> "dict", keys |-> keys, total_rows_written |-> rows, sheets |-> sheets]
NoneResult == [type |-> "NoneType", keys |-> {}, total_rows_written |-> 0, sheets |-> <<>>]

Returns(res) == [raises |-> FALSE, err |-> NoError, result |-> res]
Raises(e) == [raises |-> TRUE, err |-> e, result |-> NoneResult]

\* Every outcome of one await sync_service.sync_sheet(token).
SyncOutcomes ==
    { Returns(DictResult({"total_rows_written", "sheets"}, 10, <<"s1", "s2">>)),
      Returns(DictResult({"total_rows_written", "sheets"}, 5, <<"s1">>)),
      Returns(DictResult({}, 0, <<>>)),
      Returns(NoneResult),
      Raises(ExcRateLimited),
      Raises(HttpNotFound) }

FileLists == UNION { [1..n -> SheetFiles] : n \in 0..MaxFiles }

\* Every outcome of one await drive_service.get_sheets_in_folder(token).
ListOutcomes ==
    { [raises |-> FALSE, err |-> NoError, files |-> fl] : fl \in FileLists }
    \cup { [raises |-> TRUE, err |-> e, files |-> <<>>] : e \in {ExcNotFound, HttpNotFound} }

\* ------------------------------------------------- the handlers' pure parts
\* result.get("total_rows_written", 0)
GetRows(result) ==
    IF "total_rows_written" \in result.keys THEN result.total_rows_written ELSE 0

\* result.get("sheets", [])
GetSheets(result) ==
    IF "sheets" \in result.keys THEN result.sheets ELSE <<>>

SuccessDetail(f, result) ==
    [file_name |-> f.name, file_token |-> f.token, status |-> "success",
     rows_written |-> GetRows(result), sheets_count |-> Len(GetSheets(result)),
     error |-> ""]

FailedDetail(f, e) ==
    [file_name |-> f.name, file_token |-> f.token, status |-> "failed",
     rows_written |-> 0, sheets_count |-> 0, error |-> Str(e)]

\* The try block of the loop for file f, sync_sheet answering o.  The
\* counter is incremented as soon as the await returns; the record is built
\* afterwards, and result.get raises when result is no mapping.
TryBlock(loc, f, o) ==
    IF o.raises
    THEN [raised |-> TRUE, err |-> o.err, loc |-> loc]
    ELSE LET l1 == [loc EXCEPT !.synced_sheets = @ + 1]
         IN IF o.result.type # "dict"
            THEN [raised |-> TRUE, err |-> AttributeErrorNone, loc |-> l1]
            ELSE [raised |-> FALSE, err |-> NoError,
                  loc |-> [l1 EXCEPT !.details = Append(@, SuccessDetail(f, o.result))]]

\* Variant: the loop's handler lets HTTPException through, as the outer
\* handlers do.
InnerExceptCatches_NotHTTP(e) ==
    e.cls \in {"Exception", "AttributeError"}

\* Variant: the loop's handler catches only the plain Exception class, not
\* its subclasses.
InnerExceptCatches_Narrow(e) ==
    e.cls = "Exception"

\* "except Exception" of the loop: every error modelled is an Exception.
InnerExceptCatches(e) ==
    e.cls \in {"Exception", "HTTPException", "AttributeError"}

\* Variant: failures are collected in front of the successes.
ExceptBlock_Prepend(loc, f, e) ==
    [loc EXCEPT !.failed_sheets = @ + 1,
                !.details = <<FailedDetail(f, e)>> \o @]

\* The except block of the loop.
ExceptBlock(loc, f, e) ==
    [loc EXCEPT !.failed_sheets = @ + 1,
                !.details = Append(@, FailedDetail(f, e))]

\* One iteration of the loop: escaped is TRUE when an error leaves it.
LoopBody(loc, f, o) ==
    LET t == TryBlock(loc, f, o)
    IN IF ~t.raised
       THEN [escaped |-> FALSE, err |-> NoError, loc |-> t.loc]
       ELSE IF InnerExceptCatches(t.err)
            THEN [escaped |-> FALSE, err |-> NoError, loc |-> ExceptBlock(t.loc, f, t.err)]
            ELSE [escaped |-> TRUE, err |-> t.err, loc |-> t.loc]

HttpError(status, detail) ==
    [kind |-> "http_error", status_code |-> status, detail |-> detail]

NoResponse == [kind |-> "none"]

\* Variant: success is judged by the synced counter reaching the total.
SuccessFlag_AllSynced(synced, failed, total) ==
    synced = total

\* Variant: success is judged by something having been synced.
SuccessFlag_SomeSynced(synced, failed, total) ==
    synced > 0

\* success = failed_sheets == 0
SuccessFlag(synced, failed, total) ==
    failed = 0

\* Variant: the failed clause is added when fewer were synced than listed.
Message_ClauseWhenShort(synced, failed, total) ==
    LET base == "sync done: " \o ToString(synced) \o "/" \o ToString(total) \o " ok"
    IN IF synced < total THEN base \o ", " \o ToString(failed) \o " failed" ELSE base

\* message = f"...: {synced_sheets}/{total_sheets} ..." and, if
\* failed_sheets > 0, message += f", {failed_sheets} ..."
Message(synced, failed, total) ==
    LET base == "sync done: " \o ToString(synced) \o "/" \o ToString(total) \o " ok"
    IN IF failed > 0 THEN base \o ", " \o ToString(failed) \o " failed" ELSE base

FolderSyncResponse(tok, total, loc) ==
    [kind |-> "report",
     success |-> SuccessFlag(loc.synced_sheets, loc.failed_sheets, total),
     message |-> Message(loc.synced_sheets, loc.failed_sheets, total),
     folder_token |-> tok,
     total_sheets |-> total,
     synced_sheets |-> loc.synced_sheets,
     failed_sheets |-> loc.failed_sheets,
     details |-> loc.details]

\* Variant: an error of the listing is swallowed and an empty report
\* returned.
OuterExcept_EmptyReport(e) ==
    FolderSyncResponse("", 0, [synced_sheets |-> 0, failed_sheets |-> 0, details |-> <<>>])

\* The handlers of sync_folder_sheets: HTTPException is re-raised as it is,
\* any other Exception becomes a 500.
OuterExcept(e) ==
    IF e.cls = "HTTPException"
    THEN HttpError(e.status_code, e.text)
    ELSE HttpError(500, "folder sync failed: " \o Str(e))

\* Variant: sync_sheet_to_redis re-raises HTTPException as
\* sync_folder_sheets does.
SheetExcept_Passthrough(e) ==
    IF e.cls = "HTTPException"
    THEN HttpError(e.status_code, e.text)
    ELSE HttpError(500, "sync failed: " \o Str(e))

\* The handler of sync_sheet_to_redis: every Exception becomes a 500.
SheetExcept(e) ==
    HttpError(500, "sync failed: " \o Str(e))

SyncResponse(result) ==
    [kind |-> "sync_response", success |-> TRUE, message |-> "sync done",
     details |-> result]

\* ------------------------------------------------------------------- state
VARIABLES
    listing,          \* what get_sheets_in_folder answers
    sync_behaviour,   \* what sync_sheet answers, per spreadsheet token
    pc,               \* per request: its position
    endpoint,         \* per request: the route it came in by
    sheet_token,      \* per request: path parameter of sync_sheet_to_redis
    folder_token,     \* per request: parameter of sync_folder_sheets
    sheet_files,      \* per request: locals of sync_folder_sheets ...
    idx,              \*   position of the for loop (index of the file in hand)
    total_sheets,
    synced_sheets,
    failed_sheets,
    details,
    response,         \* per request: what the client receives
    calls             \* per request: the collaborator calls made, in order

world == <<listing, sync_behaviour>>
args == <<endpoint, sheet_token, folder_token>>
locals == <<sheet_files, idx, total_sheets, synced_sheets, failed_sheets, details>>
vars == <<listing, sync_behaviour, pc, endpoint, sheet_token, folder_token,
          sheet_files, idx, total_sheets, synced_sheets, failed_sheets, details,
          response, calls>>

\* Variant: the accumulators live outside the call (module level) and are
\* not reset, so a request starts from what the request before it left.
FreshLocals_Shared(r) ==
    IF r > 1
    THEN [synced_sheets |-> synced_sheets[r - 1],
          failed_sheets |-> failed_sheets[r - 1],
          details |-> details[r - 1]]
    ELSE [synced_sheets |-> 0, failed_sheets |-> 0, details |-> <<>>]

\* The accumulators of call r of sync_folder_sheets, as first assigned:
\* they are locals of the call.
FreshLocals(r) ==
    [synced_sheets |-> 0, failed_sheets |-> 0, details |-> <<>>]

ListCall(tok) == [op |-> "get_sheets_in_folder", arg |-> tok]
SyncCall(tok) == [op |-> "sync_sheet", arg |-> tok]

Init ==
    /\ listing \in ListOutcomes
    /\ sync_behaviour \in [Tokens -> SyncOutcomes]
    /\ pc = [r \in Runs |-> "idle"]
    /\ endpoint = [r \in Runs |-> "none"]
    /\ sheet_token = [r \in Runs |-> ""]
    /\ folder_token = [r \in Runs |-> ""]
    /\ sheet_files = [r \in Runs |-> <<>>]
    /\ idx = [r \in Runs |-> 0]
    /\ total_sheets = [r \in Runs |-> 0]
    /\ synced_sheets = [r \in Runs |-> 0]
    /\ failed_sheets = [r \in Runs |-> 0]
    /\ details = [r \in Runs |-> <<>>]
    /\ response = [r \in Runs |-> NoResponse]
    /\ calls = [r \in Runs |-> <<>>]

\* Requests arrive in succession: one is taken when the ones before it
\* have been answered.
CanStart(r) ==
    /\ pc[r] = "idle"
    /\ \A q \in Runs : q < r => pc[q] = "done"

\* ------------------------------------------------------ sync_sheet_to_redis
\* POST /sheets/{sheet_token}/sync: runs to the await of sync_sheet.
Call_sync_sheet_to_redis(r, tok) ==
    /\ CanStart(r)
    /\ pc' = [pc EXCEPT ![r] = "await_sync_sheet"]
    /\ endpoint' = [endpoint EXCEPT ![r] = "sheet"]
    /\ sheet_token' = [sheet_token EXCEPT ![r] = tok]
    /\ calls' = [calls EXCEPT ![r] = Append(@, SyncCall(tok))]
    /\ UNCHANGED <<world, folder_token, locals, response>>

\* The await finishes; the handler returns or raises.
Finish_sync_sheet_to_redis(r) ==
    /\ pc[r] = "await_sync_sheet"
    /\ LET o == sync_behaviour[sheet_token[r]]
       IN response' = [response EXCEPT ![r] =
                          IF o.raises THEN SheetExcept(o.err) ELSE SyncResponse(o.result)]
    /\ pc' = [pc EXCEPT ![r] = "done"]
    /\ UNCHANGED <<world, args, locals, calls>>

\* ------------------------------------------------------- sync_folder_sheets
\* The handler is entered with folder token tok and runs to the await of
\* get_sheets_in_folder.
Begin_sync_folder_sheets(r, ep, tok) ==
    /\ pc[r] = "idle"
    /\ pc' = [pc EXCEPT ![r] = "await_list"]
    /\ endpoint' = [endpoint EXCEPT ![r] = ep]
    /\ folder_token' = [folder_token EXCEPT ![r] = tok]
    /\ calls' = [calls EXCEPT ![r] = Append(@, ListCall(tok))]
    /\ UNCHANGED <<world, sheet_token, locals, response>>

\* The same, for requests taken in succession.
Enter_sync_folder_sheets(r, ep, tok) ==
    /\ CanStart(r)
    /\ Begin_sync_folder_sheets(r, ep, tok)

\* POST /folders/{folder_token}/sync
Call_sync_folder_sheets(r, tok) ==
    Enter_sync_folder_sheets(r, "folder", tok)

\* Variant: the default endpoint passes another token than the configured
\* one.
Call_sync_default_folder_sheets_OtherToken(r) ==
    Enter_sync_folder_sheets(r, "default", "F1")

\* POST /folders/sync
Call_sync_default_folder_sheets(r) ==
    Enter_sync_folder_sheets(r, "default", DefaultFolder)

\* Variant: an entry whose token was met earlier in the list is passed
\* over.
SeenBefore(files, k) ==
    \E j \in 1..(k - 1) : files[j].token = files[k].token

RECURSIVE NextUnseen(_, _)
NextUnseen(files, k) ==
    IF k <= Len(files) /\ SeenBefore(files, k)
    THEN NextUnseen(files, k + 1)
    ELSE k

LoopFrom_Dedup(r, files, k, loc) ==
    LET k2 == NextUnseen(files, k)
    IN /\ synced_sheets' = [synced_sheets EXCEPT ![r] = loc.synced_sheets]
       /\ failed_sheets' = [failed_sheets EXCEPT ![r] = loc.failed_sheets]
       /\ details' = [details EXCEPT ![r] = loc.details]
       /\ IF k2 <= Len(files)
          THEN /\ idx' = [idx EXCEPT ![r] = k2]
               /\ pc' = [pc EXCEPT ![r] = "await_sync"]
               /\ calls' = [calls EXCEPT ![r] = Append(@, SyncCall(files[k2].token))]
               /\ UNCHANGED response
          ELSE /\ pc' = [pc EXCEPT ![r] = "done"]
               /\ response' = [response EXCEPT ![r] =
                                  FolderSyncResponse(folder_token[r], Len(files), loc)]
               /\ UNCHANGED <<idx, calls>>

\* Variant: the sync calls of all files are started together when the loop
\* is entered, and their outcomes are collected one by one afterwards.
LoopFrom_AllAtOnce(r, files, k, loc) ==
    /\ synced_sheets' = [synced_sheets EXCEPT ![r] = loc.synced_sheets]
    /\ failed_sheets' = [failed_sheets EXCEPT ![r] = loc.failed_sheets]
    /\ details' = [details EXCEPT ![r] = loc.details]
    /\ IF k <= Len(files)
       THEN /\ idx' = [idx EXCEPT ![r] = k]
            /\ pc' = [pc EXCEPT ![r] = "await_sync"]
            /\ calls' = [calls EXCEPT ![r] =
                            IF k = 1
                            THEN @ \o [i \in 1..Len(files) |-> SyncCall(files[i].token)]
                            ELSE @]
            /\ UNCHANGED response
       ELSE /\ pc' = [pc EXCEPT ![r] = "done"]
            /\ response' = [response EXCEPT ![r] =
                               FolderSyncResponse(folder_token[r], Len(files), loc)]
            /\ UNCHANGED <<idx, calls>>

\* From the top of the for loop with the accumulators loc, k the position
\* of the next file: either the next sync_sheet is awaited, or the loop is
\* over and the response is built and returned.
LoopFrom(r, files, k, loc) ==
    /\ synced_sheets' = [synced_sheets EXCEPT ![r] = loc.synced_sheets]
    /\ failed_sheets' = [failed_sheets EXCEPT ![r] = loc.failed_sheets]
    /\ details' = [details EXCEPT ![r] = loc.details]
    /\ IF k <= Len(files)
       THEN /\ idx' = [idx EXCEPT ![r] = k]
            /\ pc' = [pc EXCEPT ![r] = "await_sync"]
            /\ calls' = [calls EXCEPT ![r] = Append(@, SyncCall(files[k].token))]
            /\ UNCHANGED response
       ELSE /\ pc' = [pc EXCEPT ![r] = "done"]
            /\ response' = [response EXCEPT ![r] =
                               FolderSyncResponse(folder_token[r], Len(files), loc)]
            /\ UNCHANGED <<idx, calls>>

\* get_sheets_in_folder returns the file list.
ListReturns(r) ==
    /\ pc[r] = "await_list"
    /\ ~listing.raises
    /\ sheet_files' = [sheet_files EXCEPT ![r] = listing.files]
    /\ total_sheets' = [total_sheets EXCEPT ![r] = Len(listing.files)]
    /\ LoopFrom(r, listing.files, 1, FreshLocals(r))
    /\ UNCHANGED <<world, args>>

\* Variant: a failed listing is tried a second time before the error is
\* answered.
ListRaises_Retry(r) ==
    /\ pc[r] = "await_list"
    /\ listing.raises
    /\ IF Len(calls[r]) < 2
       THEN /\ calls' = [calls EXCEPT ![r] = Append(@, ListCall(folder_token[r]))]
            /\ UNCHANGED <<pc, response>>
       ELSE /\ response' = [response EXCEPT ![r] = OuterExcept(listing.err)]
            /\ pc' = [pc EXCEPT ![r] = "done"]
            /\ UNCHANGED calls
    /\ UNCHANGED <<world, args, locals>>

\* get_sheets_in_folder raises: the outer handlers answer.
ListRaises(r) ==
    /\ pc[r] = "await_list"
    /\ listing.raises
    /\ response' = [response EXCEPT ![r] = OuterExcept(listing.err)]
    /\ pc' = [pc EXCEPT ![r] = "done"]
    /\ UNCHANGED <<world, args, locals, calls>>

\* Variant: the accumulators are shared by all requests (module level):
\* a request resuming from its await finds what the request furthest ahead
\* has written.
Accumulators_Global(r) ==
    LET q == CHOOSE q \in Runs : \A p \in Runs : Len(details[p]) <= Len(details[q])
    IN [synced_sheets |-> synced_sheets[q],
        failed_sheets |-> failed_sheets[q],
        details |-> details[q]]

\* The accumulators request r finds when it resumes from its await: its
\* own locals.
Accumulators(r) ==
    [synced_sheets |-> synced_sheets[r],
     failed_sheets |-> failed_sheets[r],
     details |-> details[r]]

\* The awaited sync_sheet of the file in hand finishes: the rest of the
\* iteration runs, then the loop goes on to its next await or to the return.
SyncFinishes(r) ==
    /\ pc[r] = "await_sync"
    /\ LET f == sheet_files[r][idx[r]]
           loc == Accumulators(r)
           b == LoopBody(loc, f, sync_behaviour[f.token])
       IN IF b.escaped
          THEN /\ synced_sheets' = [synced_sheets EXCEPT ![r] = b.loc.synced_sheets]
               /\ failed_sheets' = [failed_sheets EXCEPT ![r] = b.loc.failed_sheets]
               /\ details' = [details EXCEPT ![r] = b.loc.details]
               /\ response' = [response EXCEPT ![r] = OuterExcept(b.err)]
               /\ pc' = [pc EXCEPT ![r] = "done"]
               /\ UNCHANGED <<idx, calls>>
          ELSE LoopFrom(r, sheet_files[r], idx[r] + 1, b.loc)
    /\ UNCHANGED <<world, args, sheet_files, total_sheets>>

Next ==
    \/ \E r \in Runs, tok \in SheetTokens : Call_sync_sheet_to_redis(r, tok)
    \/ \E r \in Runs : Finish_sync_sheet_to_redis(r)
    \/ \E r \in Runs, tok \in FolderTokens : Call_sync_folder_sheets(r, tok)
    \/ \E r \in Runs : Call_sync_default_folder_sheets(r)
    \/ \E r \in Runs : ListReturns(r)
    \/ \E r \in Runs : ListRaises(r)
    \/ \E r \in Runs : SyncFinishes(r)

Spec == Init /\ [][Next]_vars

\* The folder endpoints alone, the path token being the configured default
\* token: sync_folder_sheets(settings.folders.default) next to
\* sync_default_folder_sheets().
NextFolder ==
    \/ \E r \in Runs : Call_sync_folder_sheets(r, DefaultFolder)
    \/ \E r \in Runs : Call_sync_default_folder_sheets(r)
    \/ \E r \in Runs : ListReturns(r)
    \/ \E r \in Runs : ListRaises(r)
    \/ \E r \in Runs : SyncFinishes(r)

SpecFolder == Init /\ [][NextFolder]_vars

\* Two requests to sync_folder_sheets in flight together: the second may
\* arrive while the first is at any of its awaits, and the event loop
\* resumes them in any order.  Requests are numbered in order of arrival.
ConcurrentRuns == {1, 2}

Arrive_sync_folder_sheets(r, tok) ==
    /\ \A q \in Runs : q < r => pc[q] # "idle"
    /\ Begin_sync_folder_sheets(r, "folder", tok)

NextConcurrent ==
    \/ \E r \in ConcurrentRuns, tok \in FolderTokens : Arrive_sync_folder_sheets(r, tok)
    \/ \E r \in Runs : ListReturns(r)
    \/ \E r \in Runs : ListRaises(r)
    \/ \E r \in Runs : SyncFinishes(r)

SpecConcurrent == Init /\ [][NextConcurrent]_vars

\* Successive runs of sync_folder_sheets alone.
NextRun ==
    \/ \E r \in Runs, tok \in FolderTokens : Call_sync_folder_sheets(r, tok)
    \/ \E r \in Runs : ListReturns(r)
    \/ \E r \in Runs : ListRaises(r)
    \/ \E r \in Runs : SyncFinishes(r)

\* Every awaited collaborator call eventually returns or raises, and the
\* event loop then resumes the handler.
SpecRunFair ==
    /\ Init /\ [][NextRun]_vars
    /\ \A r \in Runs : WF_vars(ListReturns(r))
    /\ \A r \in Runs : WF_vars(ListRaises(r))
    /\ \A r \in Runs : WF_vars(SyncFinishes(r))

\* ============================================================== properties
FolderRun(r) == endpoint[r] \in {"folder", "default"}
Done(r) == pc[r] = "done"
Reported(r) == Done(r) /\ response[r].kind = "report"

\* The files the drive service returned, and their number.
Listed == listing.files
N == Len(listing.files)

\* What sync_sheet answers for the i-th listed file.
OutcomeAt(i) == sync_behaviour[Listed[i].token]

\* Positions of the list whose sync call raises / returns.
RaisingAt == { i \in 1..N : OutcomeAt(i).raises }
ReturningAt == { i \in 1..N : ~OutcomeAt(i).raises }

EntriesWith(ds, st) == { i \in 1..Len(ds) : ds[i].status = st }
SyncCallsOf(r) == { i \in 1..Len(calls[r]) : calls[r][i].op = "sync_sheet" }

\* ---------------------------------------------------------------------- C1
\* C1: every report returned by sync_folder_sheets satisfies
\* total_sheets = synced_sheets + failed_sheets = length(details), for any
\* file list and any pattern of per-item outcomes.
C1_ReportCounts ==
    \A r \in Runs :
        Reported(r) =>
            LET rep == response[r]
            IN /\ rep.total_sheets = rep.synced_sheets + rep.failed_sheets
               /\ rep.synced_sheets + rep.failed_sheets = Len(rep.details)

\* ---------------------------------------------------------------------- C2
\* C2: if exactly one of the N files' sync calls raises and the others
\* return, wherever the raising one is, the report has exactly one failed
\* entry and N-1 success entries, each of the others at its own position.
C2_OneFailureContained ==
    \A r \in Runs :
        (Reported(r) /\ Cardinality(RaisingAt) = 1) =>
            LET rep == response[r]
            IN /\ Len(rep.details) = N
               /\ Cardinality(EntriesWith(rep.details, "failed")) = 1
               /\ Cardinality(EntriesWith(rep.details, "success")) = N - 1
               /\ \A i \in 1..N :
                      /\ rep.details[i].file_token = Listed[i].token
                      /\ (rep.details[i].status = "failed") <=> (i \in RaisingAt)

\* ---------------------------------------------------------------------- C3
\* C3: in every report the success flag is true exactly when failed_sheets
\* is 0.
C3_SuccessIffNoFailure ==
    \A r \in Runs :
        Reported(r) =>
            (response[r].success <=> (response[r].failed_sheets = 0))

\* A report of a partial failure: some synced, some failed, success false.
C3_Witness ==
    \E r \in Runs :
        /\ Reported(r)
        /\ response[r].synced_sheets > 0
        /\ response[r].failed_sheets > 0
        /\ ~response[r].success

\* ---------------------------------------------------------------------- C4
\* C4: details is in the order of the file list: details[i] carries the
\* file_name and file_token of the i-th listed file, succeeded or failed.
C4_DetailsInListOrder ==
    \A r \in Runs :
        Reported(r) =>
            LET ds == response[r].details
            IN /\ Len(ds) = N
               /\ \A i \in 1..N :
                      /\ ds[i].file_name = Listed[i].name
                      /\ ds[i].file_token = Listed[i].token

\* A report over three different files, a failure between two successes.
C4_Witness ==
    \E r \in Runs :
        /\ Reported(r)
        /\ N = 3
        /\ Cardinality({ Listed[i].token : i \in 1..N }) = 3
        /\ response[r].details[1].status = "success"
        /\ response[r].details[2].status = "failed"
        /\ response[r].details[3].status = "success"

\* ---------------------------------------------------------------------- C5
\* C5: if the folder listing raises, no report is returned, not even a
\* partial one: the caller gets one error, and sync_sheet is never called.
C5_ListingFailureIsFatal ==
    \A r \in Runs :
        (FolderRun(r) /\ listing.raises) =>
            /\ SyncCallsOf(r) = {}
            /\ details[r] = <<>>
            /\ response[r].kind # "report"
            /\ Done(r) => response[r].kind = "http_error"

\* A folder request answered after the listing raised.
C5_Witness ==
    \E r \in Runs :
        /\ FolderRun(r)
        /\ Done(r)
        /\ listing.raises
        /\ response[r].kind = "http_error"

\* ---------------------------------------------------------------------- C6
\* C6: for every listed file i, details[i] is a success record with the
\* rows written and the number of sheets of the result when its sync call
\* returned, and a failure record with the error's message when it raised.
C6_DetailsMatchOutcomes ==
    \A r \in Runs :
        Reported(r) =>
            LET ds == response[r].details
            IN /\ Len(ds) = N
               /\ \A i \in 1..N :
                      LET o == OutcomeAt(i)
                      IN /\ ds[i].file_name = Listed[i].name
                         /\ ds[i].file_token = Listed[i].token
                         /\ IF o.raises
                            THEN /\ ds[i].status = "failed"
                                 /\ ds[i].error = Str(o.err)
                            ELSE /\ ds[i].status = "success"
                                 /\ ds[i].rows_written = o.result.total_rows_written
                                 /\ ds[i].sheets_count = Len(o.result.sheets)

\* ---------------------------------------------------------------------- C7
\* C7: when the folder listing returns, the request is answered with a
\* report, never with an error, however many sync calls raise and whatever
\* they raise.
C7_PerItemFailureNeverEscalates ==
    \A r \in Runs :
        (FolderRun(r) /\ ~listing.raises) =>
            /\ response[r].kind # "http_error"
            /\ Done(r) => response[r].kind = "report"

\* A report in which every item failed, by a plain Exception and by an
\* HTTPException.
C7_Witness ==
    \E r \in Runs :
        /\ Reported(r)
        /\ N >= 2
        /\ RaisingAt = 1..N
        /\ \E i \in 1..N : OutcomeAt(i).err = HttpNotFound
        /\ \E i \in 1..N : OutcomeAt(i).err = ExcRateLimited
        /\ response[r].failed_sheets = N

\* ---------------------------------------------------------------------- C8
\* An error escapes the handler of request r: the single-sheet sync call
\* raised, or the folder listing raised.
ErrorEscapes(r) ==
    \/ endpoint[r] = "sheet" /\ sync_behaviour[sheet_token[r]].raises
    \/ FolderRun(r) /\ listing.raises

\* C8 (as claimed): all three endpoints answer with a structured error of
\* server-fault (5xx) status for every error raised by the single-sheet
\* sync call or by the folder listing call.
C8_AlwaysServerFault ==
    \A r \in Runs :
        (Done(r) /\ ErrorEscapes(r)) =>
            /\ response[r].kind = "http_error"
            /\ response[r].status_code \in 500..599

\* C8 (amended): the single-sheet endpoint answers 500 for every error of
\* the sync call; the two folder endpoints answer 500 for every error of the
\* listing call that is not an HTTPException, and pass an HTTPException of
\* the listing call on unchanged, with its own status and detail.
C8_ServerFaultUnlessHTTPException ==
    \A r \in Runs :
        (Done(r) /\ ErrorEscapes(r)) =>
            /\ response[r].kind = "http_error"
            /\ endpoint[r] = "sheet" => response[r].status_code = 500
            /\ (FolderRun(r) /\ listing.err.cls # "HTTPException") =>
                   response[r].status_code = 500
            /\ (FolderRun(r) /\ listing.err.cls = "HTTPException") =>
                   /\ response[r].status_code = listing.err.status_code
                   /\ response[r].detail = listing.err.text

\* The single-sheet endpoint answered 500 to an HTTPException of the sync
\* call, and the default-folder endpoint answered 500 to a listing error.
C8_Witness ==
    \E r, q \in Runs :
        /\ Done(r) /\ endpoint[r] = "sheet"
        /\ sync_behaviour[sheet_token[r]].err = HttpNotFound
        /\ response[r].status_code = 500
        /\ Done(q) /\ endpoint[q] = "default"
        /\ listing.err = ExcNotFound
        /\ response[q].status_code = 500

\* ---------------------------------------------------------------------- C9
\* C9: an empty file list gives the report total_sheets = 0,
\* synced_sheets = 0, failed_sheets = 0, success = true, details = [], and
\* sync_sheet is not called.
C9_EmptyFolder ==
    \A r \in Runs :
        (FolderRun(r) /\ Done(r) /\ ~listing.raises /\ N = 0) =>
            /\ response[r].kind = "report"
            /\ response[r].total_sheets = 0
            /\ response[r].synced_sheets = 0
            /\ response[r].failed_sheets = 0
            /\ response[r].success = TRUE
            /\ response[r].details = <<>>
            /\ SyncCallsOf(r) = {}

\* A folder request answered over an empty list.
C9_Witness ==
    \E r \in Runs :
        /\ FolderRun(r)
        /\ Done(r)
        /\ ~listing.raises
        /\ N = 0
        /\ response[r].kind = "report"

\* --------------------------------------------------------------------- C10
\* C10: two folder syncs in succession over the same folder content and
\* the same per-file sync behaviour return reports with the same
\* total_sheets, synced_sheets and failed_sheets.
C10_Idempotent ==
    \A r, q \in Runs :
        (Reported(r) /\ Reported(q)) =>
            /\ response[r].total_sheets = response[q].total_sheets
            /\ response[r].synced_sheets = response[q].synced_sheets
            /\ response[r].failed_sheets = response[q].failed_sheets

\* Two reports, one after the other, over a folder with successes and
\* failures.
C10_Witness ==
    \E r, q \in Runs :
        /\ r < q
        /\ Reported(r) /\ Reported(q)
        /\ response[q].synced_sheets > 0
        /\ response[q].failed_sheets > 0

\* --------------------------------------------------------------------- C11
\* C11: the default-folder endpoint is pure delegation: under the same
\* collaborators it makes the same collaborator calls and gives the same
\* response (the same report, folder_token being the configured default
\* token, or the same error) as sync_folder_sheets called with the
\* configured default token.
C11_DefaultIsDelegation ==
    \A r, q \in Runs :
        (/\ Done(r) /\ endpoint[r] = "default"
         /\ Done(q) /\ endpoint[q] = "folder" /\ folder_token[q] = DefaultFolder) =>
            /\ response[r] = response[q]
            /\ calls[r] = calls[q]
            /\ response[r].kind = "report" => response[r].folder_token = DefaultFolder

\* Both endpoints answered with a report of successes and failures.
C11_Witness ==
    \E r, q \in Runs :
        /\ Reported(r) /\ endpoint[r] = "default"
        /\ Reported(q) /\ endpoint[q] = "folder" /\ folder_token[q] = DefaultFolder
        /\ response[r].synced_sheets > 0
        /\ response[r].failed_sheets > 0

\* --------------------------------------------------------------------- C12
IsSyncCall(c) == c.op = "sync_sheet"

\* The tokens sync_sheet was called with by request r, in call order.
SyncArgs(r) ==
    LET sc == SelectSeq(calls[r], IsSyncCall)
    IN [i \in 1..Len(sc) |-> sc[i].arg]

\* C12: in one run sync_sheet is called once for each entry of the file
\* list, in list order and one at a time: the call for entry i+1 is made
\* only when the outcome of entry i is in details; no entry is retried or
\* skipped.
C12_OneCallPerEntryInOrder ==
    \A r \in Runs :
        (FolderRun(r) /\ ~listing.raises /\ pc[r] \in {"await_sync", "done"}) =>
            LET sa == SyncArgs(r)
            IN /\ Len(sa) <= N
               /\ \A i \in 1..Len(sa) : sa[i] = Listed[i].token
               /\ pc[r] = "await_sync" => Len(sa) = Len(details[r]) + 1
               /\ pc[r] = "done" => (Len(sa) = N /\ Len(details[r]) = N)

\* A run over three entries finished, the first of them having failed.
C12_Witness ==
    \E r \in Runs :
        /\ Reported(r)
        /\ N = 3
        /\ 1 \in RaisingAt
        /\ Len(SyncArgs(r)) = 3

\* --------------------------------------------------------------------- C13
\* C13: once the listing has returned N files, and every sync call
\* eventually returns or raises, the run ends by returning a report after
\* exactly N sync calls; it never ends otherwise (no early abort).
C13_RunsToCompletion ==
    /\ \A r \in Runs :
          (FolderRun(r) /\ pc[r] = "await_sync") ~>
              (Reported(r) /\ Len(SyncArgs(r)) = N)
    /\ [](\A r \in Runs :
            (FolderRun(r) /\ Done(r) /\ ~listing.raises) =>
                (Reported(r) /\ Len(SyncArgs(r)) = N))

\* A run over three entries returned its report although the last two of
\* them failed.
C13_Witness ==
    \E r \in Runs :
        /\ Reported(r)
        /\ N = 3
        /\ {2, 3} \subseteq RaisingAt
        /\ Len(SyncArgs(r)) = 3
        /\ Len(response[r].details) = 3

\* --------------------------------------------------------------------- C14
\* C14: get_sheets_in_folder is called exactly once per run, with the run's
\* folder token and before any sync_sheet call; it is never called again,
\* and when it raises the run ends at once, nothing else having been called.
C14_ListingOnceAndFirst ==
    \A r \in Runs :
        FolderRun(r) =>
            /\ Len(calls[r]) >= 1
            /\ calls[r][1] = ListCall(folder_token[r])
            /\ \A i \in 2..Len(calls[r]) : calls[r][i].op = "sync_sheet"
            /\ listing.raises =>
                   (pc[r] \in {"await_list", "done"} /\ Len(calls[r]) = 1)

\* The default-folder endpoint ended on an HTTPException of the listing,
\* having made that one call.
C14_Witness ==
    \E r \in Runs :
        /\ endpoint[r] = "default"
        /\ Done(r)
        /\ listing.err = HttpNotFound
        /\ calls[r] = <<ListCall(DefaultFolder)>>

\* --------------------------------------------------------------------- C15
\* What a run working alone has accumulated after the entries k..Len(files)
\* of files, starting from loc.
RECURSIVE LoopAlone(_, _, _)
LoopAlone(files, k, loc) ==
    IF k > Len(files)
    THEN loc
    ELSE LoopAlone(files, k + 1,
                   LoopBody(loc, files[k], sync_behaviour[files[k].token]).loc)

AloneAfter(k) ==
    LoopAlone(SubSeq(Listed, 1, k), 1,
              [synced_sheets |-> 0, failed_sheets |-> 0, details |-> <<>>])

\* C15: two folder syncs interleaved at their awaits are independent: at
\* every await and at the return, the counters and details of a run are
\* those of a run working alone over its own file list, and so is its
\* report.
C15_ConcurrentRunsIndependent ==
    \A r \in Runs :
        (FolderRun(r) /\ ~listing.raises /\ pc[r] \in {"await_sync", "done"}) =>
            LET k == IF Done(r) THEN N ELSE idx[r] - 1
                alone == AloneAfter(k)
            IN /\ synced_sheets[r] = alone.synced_sheets
               /\ failed_sheets[r] = alone.failed_sheets
               /\ details[r] = alone.details
               /\ Done(r) => response[r] = FolderSyncResponse(folder_token[r], N, alone)

\* The second request has returned its report while the first is still
\* awaiting the sync of its second entry.
C15_Witness ==
    /\ pc[1] = "await_sync"
    /\ idx[1] = 2
    /\ Reported(2)
    /\ N >= 2
    /\ response[2].synced_sheets > 0
    /\ response[2].failed_sheets > 0

\* --------------------------------------------------------------------- C16
\* C16: an item is recorded as failed if and only if its sync call raised:
\* every sync call that returns, whatever the shape of its result, is
\* recorded as a success and counted in synced_sheets.
C16_FailedIffRaised ==
    \A r \in Runs :
        Reported(r) =>
            /\ Len(response[r].details) = N
            /\ \A i \in 1..N :
                   (response[r].details[i].status = "failed") <=> OutcomeAt(i).raises
            /\ response[r].synced_sheets = Cardinality(ReturningAt)

\* --------------------------------------------------------------------- C17
\* The files request r has processed: those before the one in hand.
Processed(r) == IF Done(r) THEN Len(sheet_files[r]) ELSE idx[r] - 1

\* C17: at every await of the loop and at its end, after k files have been
\* processed, synced_sheets + failed_sheets = length(details) = k <=
\* total_sheets; each processed file adds exactly one to one counter and one
\* entry to details, and total_sheets does not change.
C17_LoopInvariant ==
    /\ [](\A r \in Runs :
            (FolderRun(r) /\ ~listing.raises /\ pc[r] \in {"await_sync", "done"}) =>
                /\ synced_sheets[r] + failed_sheets[r] = Len(details[r])
                /\ Len(details[r]) = Processed(r)
                /\ Processed(r) <= total_sheets[r])
    /\ [][\A r \in Runs :
            pc[r] = "await_sync" =>
                /\ total_sheets'[r] = total_sheets[r]
                /\ pc'[r] # pc[r] \/ idx'[r] # idx[r] =>
                       /\ synced_sheets'[r] >= synced_sheets[r]
                       /\ failed_sheets'[r] >= failed_sheets[r]
                       /\ synced_sheets'[r] + failed_sheets'[r] =
                              synced_sheets[r] + failed_sheets[r] + 1
                       /\ Len(details'[r]) = Len(details[r]) + 1
                       /\ SubSeq(details'[r], 1, Len(details[r])) = details[r]]_vars

\* --------------------------------------------------------------------- C18
PositionsOf(seq, t) == { i \in 1..Len(seq) : seq[i] = t }

\* C18: nothing is de-duplicated: a token listed at several positions is
\* synced once per position and has one details entry per position, and
\* total_sheets counts the entries of the list.
C18_NoDeduplication ==
    \A r \in Runs :
        Reported(r) =>
            LET listed == [i \in 1..N |-> Listed[i].token]
                ds == response[r].details
                recorded == [i \in 1..Len(ds) |-> ds[i].file_token]
            IN /\ response[r].total_sheets = N
               /\ \A t \in Tokens :
                      /\ Cardinality(PositionsOf(SyncArgs(r), t)) =
                             Cardinality(PositionsOf(listed, t))
                      /\ Cardinality(PositionsOf(recorded, t)) =
                             Cardinality(PositionsOf(listed, t))

\* A report over a list naming the same token at its first two positions.
C18_Witness ==
    \E r \in Runs :
        /\ Reported(r)
        /\ N >= 2
        /\ Listed[1].token = Listed[2].token
        /\ Cardinality(PositionsOf(SyncArgs(r), Listed[1].token)) >= 2
        /\ response[r].total_sheets = N

\* --------------------------------------------------------------------- C19
\* C19: the message of a report gives its synced_sheets and total_sheets,
\* and has the failed clause, giving failed_sheets, exactly when
\* failed_sheets > 0.
C19_MessageReportsCounts ==
    \A r \in Runs :
        Reported(r) =>
            LET rp == response[r]
                base == "sync done: " \o ToString(rp.synced_sheets) \o "/"
                            \o ToString(rp.total_sheets) \o " ok"
                clause == ", " \o ToString(rp.failed_sheets) \o " failed"
            IN /\ rp.failed_sheets > 0 => rp.message = base \o clause
               /\ rp.failed_sheets = 0 => rp.message = base

\* A report whose message carries the failed clause and three different
\* counts.
C19_Witness ==
    \E r \in Runs :
        /\ Reported(r)
        /\ response[r].message = "sync done: 2/3 ok, 1 failed"

====
